---- MODULE Spec2Model ----
(***************************************************************************)
(* Key-Phrase-to-Substandard mapper: key_phrase_mapper.py.                 *)
(*                                                                         *)
(* orchestrator() loads the records of the input sheet, creates the output *)
(* CSV file, submits one process_objective task per record to a            *)
(* multiprocessing pool, waits for all of them, and mirrors the CSV file   *)
(* to the output sheet.  process_objective() calls the oracle through      *)
(* get_mapping() (bounded retry), checks the shape of the answer, computes *)
(* the statistics with analyze_output_dict() and appends one row to the    *)
(* CSV file under the manager lock.                                        *)
(*                                                                         *)
(* Strings that matter only by being empty or not (objective ids) are      *)
(* sequences of characters; a cell of the sheet that should hold JSON is a *)
(* text [wf, doc]: wf says whether json.loads accepts it, doc is the       *)
(* document it decodes to.  The variable log holds the WARNING and ERROR   *)
(* entries (INFO/DEBUG entries are not modelled).                          *)
(*                                                                         *)
(* Spec is the run of orchestrator() over every sheet of up to MaxRecords  *)
(* records.  StatsSpec is the run over at most one record with an oracle   *)
(* that answers with every mapping of WideInputs (the statistics of        *)
(* analyze_output_dict).  FairSpec is Spec under fair scheduling.          *)
(***************************************************************************)
EXTENDS Integers, Sequences, FiniteSets, TLC

\* ---- bounds of the model ----
MaxRecords == 2          \* records returned by input_sheet.get_all_records()
Processes == 2           \* pool size; the code passes processes=7 (line 329)
MaxItems == 2            \* key phrases in one list of a mapping the oracle returns
MaxValues == 2           \* substandards in a mapping the oracle returns

\* ---- program constants ----
max_retries == 5         \* get_mapping(..., max_retries=5)

VARIABLES
  google_sheet_info,     \* event.get("google_sheet") is truthy
  records,               \* input_sheet.get_all_records()
  pc,                    \* position of orchestrator()
  idx,                   \* loop index of the orchestrator's current loop
  learning_objectives,   \* the three lists built while loading
  substandards,
  key_phrases,
  output_exists,         \* os.path.exists(output_path)
  output_file,           \* content of output_path: sequence of written chunks
  lock,                  \* manager.Lock(): 0 = free, j = held by task j
  async_results,         \* tasks submitted with pool.apply_async, in order
  task,                  \* task[j]: position of process_objective for list index j
  attempt,               \* attempt[j]: retry_count of get_mapping
  calls,                 \* calls[j]: messages.create calls made by the running get_mapping
  sleeps,                \* sleeps[j]: time.sleep(2) calls made by the running get_mapping
  raises,                \* raises[j]: calls of the running get_mapping that raised
  reply,                 \* reply[j]: what the last messages.create call did
  row_data,              \* row_data[j]: the row process_objective assembled
  outcome,               \* outcome[j]: how process_objective ended
  log,                   \* WARNING/ERROR entries written by logging
  rows,                  \* rows read back from the CSV file for the mirror
  output_sheet           \* rows appended to the output sheet

vars == <<google_sheet_info, records, pc, idx, learning_objectives, substandards,
          key_phrases, output_exists, output_file, lock, async_results, task,
          attempt, calls, sleeps, raises, reply, row_data, outcome, log, rows, output_sheet>>

orchVars == <<pc, idx>>
listVars == <<learning_objectives, substandards, key_phrases>>
fileVars == <<output_exists, output_file>>
taskVars == <<task, attempt, calls, sleeps, raises, reply, row_data, outcome>>
mirrorVars == <<rows, output_sheet>>
inputVars == <<google_sheet_info, records>>

Tasks == 1..MaxRecords

\* ---------------------------------------------------------------------------
\* Data
\* ---------------------------------------------------------------------------

\* A sheet cell holding JSON text, and a cell json.loads rejects.
JsonText(doc) == [wf |-> TRUE, doc |-> doc]
Malformed == [wf |-> FALSE, doc |-> <<>>]

\* json.loads(text): the decoded document, or JSONDecodeError.
JsonLoads(text) ==
  IF text.wf THEN [ok |-> TRUE, val |-> text.doc] ELSE [ok |-> FALSE, val |-> <<>>]

\* json.dumps(value, ensure_ascii=False)
JsonDumps(value) == [wf |-> TRUE, doc |-> value]

\* The i-th record of the sheet.  Its objective id and its lists are tagged
\* with i, so every loaded value can be traced to the record it came from.
ObjectiveId(i) == <<i>>
SubstandardsDoc(i) == <<10 * i + 1, 10 * i + 2>>
KeyPhrasesDoc(i) == <<100 * i + 1, 100 * i + 2>>

RecordShapes == {"ok", "empty_lo", "bad_substandards", "bad_key_phrases", "no_key"}

RecordOf(i, shape) ==
  [keys |-> IF shape = "no_key"
              THEN {"Learning Objective", "Substandards"}
              ELSE {"Learning Objective", "Substandards", "Key Phrases"},
   lo   |-> IF shape = "empty_lo" THEN <<>> ELSE ObjectiveId(i),
   subs |-> IF shape = "bad_substandards" THEN Malformed ELSE JsonText(SubstandardsDoc(i)),
   kps  |-> IF shape = "bad_key_phrases" THEN Malformed ELSE JsonText(KeyPhrasesDoc(i))]

RecordLists ==
  UNION {[1..n -> RecordShapes] : n \in 0..MaxRecords}

RecordsOf(shapes) == [i \in DOMAIN shapes |-> RecordOf(i, shapes[i])]

\* A log entry: level, message, the objective id it carries (<<>> if it
\* carries none) and the attempt or record number it carries (0 if none).
Entry(level, msg, id, n) == [level |-> level, msg |-> msg, id |-> id, n |-> n]

NoRow == [lo |-> <<>>, subs |-> Malformed, kps |-> Malformed, thinking |-> 0,
          mapping |-> Malformed, nkp |-> 0, total |-> 0, unique |-> "-"]

\* The CSV file is a sequence of chunks in the order they reached the file.
\* The header line is one chunk (part 0).  A data row reaches the file in two
\* chunks (part 1, then part 2, which ends the line): the buffered writer
\* flushes a long row in more than one write.
HeaderChunk == [part |-> 0, data |-> NoRow]
RowChunk(row, p) == [part |-> p, data |-> row]

\* A row left in the file by an earlier run with the same output_file_name.
OldRow == [NoRow EXCEPT !.lo = <<0>>, !.unique = "Yes"]
PriorFile == <<HeaderChunk, RowChunk(OldRow, 1), RowChunk(OldRow, 2)>>

\* ---------------------------------------------------------------------------
\* analyze_output_dict (lines 113-140)
\* ---------------------------------------------------------------------------

\* A value of the mapping the oracle returned: a list of key phrases
\* (islist), or something else (a string, a number, a nested object).
\* hashable is FALSE for a nested object, and for a list that holds one.
ListValue(items) == [islist |-> TRUE, hashable |-> TRUE, items |-> items]
ScalarValue(v) == [islist |-> FALSE, hashable |-> TRUE, items |-> <<v>>]
ObjectValue == [islist |-> FALSE, hashable |-> FALSE, items |-> <<>>]

\* len(value) is added for every value, list or not.
RECURSIVE CountItems_AllValues(_, _)
CountItems_AllValues(values, i) ==
  IF i > Len(values) THEN 0
  ELSE Len(values[i].items) + CountItems_AllValues(values, i + 1)

\* Lines 123-128: total of the lengths of the values that are lists.
RECURSIVE CountItems(_, _)
CountItems(values, i) ==
  IF i > Len(values) THEN 0
  ELSE (IF values[i].islist THEN Len(values[i].items) ELSE 0) + CountItems(values, i + 1)

\* The lists are compared as sets of phrases: frozenset(value) for tuple(value).
RECURSIVE CheckUnique_Unordered(_, _, _)
CheckUnique_Unordered(values, i, seen_values) ==
  LET hashable_value ==
        [islist |-> values[i].islist,
         items |-> {values[i].items[k] : k \in 1..Len(values[i].items)}]
  IN IF i > Len(values) THEN "unique"
     ELSE IF ~values[i].hashable THEN "TypeError"
     ELSE IF hashable_value \in seen_values THEN "duplicate"
     ELSE CheckUnique_Unordered(values, i + 1, seen_values \cup {hashable_value})

\* Lines 131-138: the loop over the values with the set seen_values.  Looking
\* a value up in the set hashes it, which raises TypeError on an unhashable
\* value; the loop stops at the first value seen before.
RECURSIVE CheckUnique(_, _, _)
CheckUnique(values, i, seen_values) ==
  IF i > Len(values) THEN "unique"
  ELSE IF ~values[i].hashable THEN "TypeError"
  ELSE IF values[i] \in seen_values THEN "duplicate"
  ELSE CheckUnique(values, i + 1, seen_values \cup {values[i]})

\* output.values() in insertion order is the sequence `output`.
analyze_output_dict(output) ==
  LET u == CheckUnique(output, 1, {}) IN
  [raised |-> u = "TypeError",
   total |-> CountItems(output, 1),
   is_unique |-> u = "unique"]

\* ---------------------------------------------------------------------------
\* The oracle (claude_client.messages.create) and get_mapping (lines 164-189)
\* ---------------------------------------------------------------------------

\* The input payload of a tool_use block: mapping_result.
ToolInput(has, isdict, m) ==
  [scratchpad |-> 1, has_substandards |-> has, is_dict |-> isdict, mapping |-> m]

GoodInput == ToolInput(TRUE, TRUE, <<ListValue(<<1>>), ListValue(<<2>>)>>)
StringInput == ToolInput(TRUE, FALSE, <<>>)         \* "substandards": "some text"
ObjectInput == ToolInput(TRUE, TRUE, <<ObjectValue>>) \* {"s1": {"k": 1}}
ToolInputs == {GoodInput, StringInput, ObjectInput}

NoReply == [kind |-> "none", input |-> GoodInput]

\* What one call of messages.create can do: raise, answer without a tool_use
\* block, or answer with one.
OracleReplies ==
  {[kind |-> "raise", input |-> GoodInput], [kind |-> "text", input |-> GoodInput]}
    \cup {[kind |-> "tool_use", input |-> i] : i \in ToolInputs}

\* The payloads of a wider oracle, for a job with the key phrases of record 1:
\* every mapping of up to MaxValues substandards whose values are lists of up
\* to MaxItems of these phrases, a non-list value, a nested object or a list
\* holding one; a "substandards" that is no dict; a payload without the key.
SeqsUpTo(S, n) == UNION {[1..k -> S] : k \in 0..n}
NestedList == [islist |-> TRUE, hashable |-> FALSE, items |-> <<0>>]
PhraseLists == SeqsUpTo({KeyPhrasesDoc(1)[k] : k \in 1..Len(KeyPhrasesDoc(1))}, MaxItems)
WideValues == {ListValue(l) : l \in PhraseLists} \cup {ScalarValue(0), ObjectValue, NestedList}
WideMappings == SeqsUpTo(WideValues, MaxValues)
WideInputs ==
  {ToolInput(TRUE, TRUE, m) : m \in WideMappings}
    \cup {StringInput, ToolInput(FALSE, FALSE, <<>>)}
WideReplies == {[kind |-> "tool_use", input |-> i] : i \in WideInputs}

\* One iteration too many.
InRange_OffByOne(retry_count) == retry_count <= max_retries

\* Line 164: range(max_retries) holds retry_count.
InRange(retry_count) == retry_count < max_retries

\* Lines 183-185: the handler sleeps unless this was the last attempt.
SleepsAfter(retry_count) == retry_count < max_retries - 1

\* ---------------------------------------------------------------------------
\* Init
\* ---------------------------------------------------------------------------
Init ==
  /\ google_sheet_info \in BOOLEAN
  /\ \E shapes \in RecordLists : records = RecordsOf(shapes)
  /\ ~google_sheet_info => records = <<>>   \* no sheet, no records
  /\ pc = "start"
  /\ idx = 0
  /\ learning_objectives = <<>>
  /\ substandards = <<>>
  /\ key_phrases = <<>>
  /\ output_exists \in BOOLEAN
  /\ output_file = IF output_exists THEN PriorFile ELSE <<>>
  /\ lock = 0
  /\ async_results = <<>>
  /\ task = [j \in Tasks |-> "none"]
  /\ attempt = [j \in Tasks |-> 0]
  /\ calls = [j \in Tasks |-> 0]
  /\ sleeps = [j \in Tasks |-> 0]
  /\ raises = [j \in Tasks |-> 0]
  /\ reply = [j \in Tasks |-> NoReply]
  /\ row_data = [j \in Tasks |-> NoRow]
  /\ outcome = [j \in Tasks |-> "none"]
  /\ log = {}
  /\ rows = <<>>
  /\ output_sheet = <<>>

\* ---------------------------------------------------------------------------
\* orchestrator(): reading the inputs (lines 257-306)
\* ---------------------------------------------------------------------------

\* Lines 258-275 and 298-302: set up the two sheets and fetch the records, or
\* log that no sheet is configured and go on with empty lists.
\* setup_google_sheet / get_all_records may raise; nothing catches that.
SetupSheets ==
  /\ pc = "start"
  /\ \/ /\ ~google_sheet_info
        /\ log' = log \cup {Entry("ERROR", "No Google Sheet information", <<>>, 0)}
        /\ pc' = "load"
        /\ idx' = 1
     \/ /\ google_sheet_info
        /\ pc' = "load"
        /\ idx' = 1
        /\ UNCHANGED log
     \/ /\ google_sheet_info
        /\ pc' = "raised"
        /\ UNCHANGED <<idx, log>>
  /\ UNCHANGED <<inputVars, listVars, fileVars, lock, async_results, taskVars, mirrorVars>>

\* The objective is appended as soon as it is read, before the two json.loads.
LoadOne_AppendEarly(los, subs, kps, record) ==
  IF "Learning Objective" \notin record.keys
    THEN [err |-> "KeyError", los |-> los, subs |-> subs, kps |-> kps]
  ELSE IF "Substandards" \notin record.keys \/ "Key Phrases" \notin record.keys
    THEN [err |-> "KeyError", los |-> Append(los, record.lo), subs |-> subs, kps |-> kps]
  ELSE IF ~JsonLoads(record.subs).ok \/ ~JsonLoads(record.kps).ok
    THEN [err |-> "JSONDecodeError", los |-> Append(los, record.lo), subs |-> subs, kps |-> kps]
  ELSE [err |-> "none",
        los |-> Append(los, record.lo),
        subs |-> Append(subs, JsonLoads(record.subs).val),
        kps |-> Append(kps, JsonLoads(record.kps).val)]

\* Lines 283-297: one iteration of the parsing loop, on the lists built so
\* far.  The three reads come first and the three appends after them, so a
\* record that raises JSONDecodeError or KeyError appends to none of the lists.
LoadOne(los, subs, kps, record) ==
  LET fail(e) == [err |-> e, los |-> los, subs |-> subs, kps |-> kps] IN
  IF "Learning Objective" \notin record.keys \/ "Substandards" \notin record.keys
    THEN fail("KeyError")
  ELSE IF ~JsonLoads(record.subs).ok
    THEN fail("JSONDecodeError")
  ELSE IF "Key Phrases" \notin record.keys
    THEN fail("KeyError")
  ELSE IF ~JsonLoads(record.kps).ok
    THEN fail("JSONDecodeError")
  ELSE [err |-> "none",
        los |-> Append(los, record.lo),
        subs |-> Append(subs, JsonLoads(record.subs).val),
        kps |-> Append(kps, JsonLoads(record.kps).val)]

LoadRecord ==
  /\ pc = "load"
  /\ idx <= Len(records)
  /\ LET loaded == LoadOne(learning_objectives, substandards, key_phrases, records[idx]) IN
       /\ learning_objectives' = loaded.los
       /\ substandards' = loaded.subs
       /\ key_phrases' = loaded.kps
       /\ log' = IF loaded.err = "none" THEN log
                 ELSE log \cup {Entry("ERROR", loaded.err, <<>>, idx)}
  /\ idx' = idx + 1
  /\ UNCHANGED <<inputVars, pc, fileVars, lock, async_results, taskVars, mirrorVars>>

\* Lines 304-306: nothing loaded, log and return.
CheckEmpty ==
  /\ pc = "load"
  /\ idx > Len(records)
  /\ IF learning_objectives = <<>>
       THEN /\ log' = log \cup {Entry("WARNING", "No learning objectives found to process.", <<>>, 0)}
            /\ pc' = "returned"
       ELSE /\ pc' = "setup_file"
            /\ UNCHANGED log
  /\ UNCHANGED <<inputVars, idx, listVars, fileVars, lock, async_results, taskVars, mirrorVars>>

\* Lines 308-329: create the output file with its header unless it exists
\* (failure: log and sys.exit(1)), then create the manager lock and the pool.
SetupOutputFile ==
  /\ pc = "setup_file"
  /\ \/ /\ output_exists
        /\ pc' = "submit"
        /\ idx' = 1
        /\ UNCHANGED <<fileVars, log>>
     \/ /\ ~output_exists
        /\ output_exists' = TRUE
        /\ output_file' = <<HeaderChunk>>
        /\ pc' = "submit"
        /\ idx' = 1
        /\ UNCHANGED log
     \/ /\ ~output_exists
        /\ log' = log \cup {Entry("ERROR", "Failed to create output CSV file", <<>>, 0)}
        /\ pc' = "exit1"
        /\ UNCHANGED <<fileVars, idx>>
  /\ UNCHANGED <<inputVars, listVars, lock, async_results, taskVars, mirrorVars>>

\* Lines 333-351: one iteration of the submission loop over
\* zip(learning_objectives, substandards, key_phrases).
ZipLen == 
  LET a == Len(learning_objectives)
      b == Len(substandards)
      c == Len(key_phrases)
      ab == IF a < b THEN a ELSE b
  IN IF ab < c THEN ab ELSE c

\* No objective is ever skipped.
Skips_Never(learning_objective) == FALSE

\* Line 336: `if not learning_objective`.
Skips(learning_objective) == learning_objective = <<>>

Submit ==
  /\ pc = "submit"
  /\ idx <= ZipLen
  /\ IF Skips(learning_objectives[idx])
       THEN /\ log' = log \cup {Entry("WARNING", "Encountered empty Learning Objective", <<>>, idx)}
            /\ UNCHANGED <<async_results, task>>
       ELSE /\ async_results' = Append(async_results, idx)
            /\ task' = [task EXCEPT ![idx] = "queued"]
            /\ UNCHANGED log
  /\ idx' = idx + 1
  /\ UNCHANGED <<inputVars, pc, listVars, fileVars, lock, attempt, calls, sleeps,
                 raises, reply, row_data, outcome, mirrorVars>>

SubmitDone ==
  /\ pc = "submit"
  /\ idx > ZipLen
  /\ pc' = "wait"
  /\ idx' = 1
  /\ UNCHANGED <<inputVars, listVars, fileVars, lock, async_results, taskVars, log, mirrorVars>>

\* ---------------------------------------------------------------------------
\* process_objective (lines 204-246)
\* ---------------------------------------------------------------------------

\* Line 218: isinstance(substandards_mapping, dict), on
\* mapping_result.get("substandards", {}).
SubstandardsMapping(mapping_result) ==
  IF mapping_result.has_substandards THEN mapping_result.mapping ELSE <<>>

IsDict_Unchecked(mapping_result) == TRUE

IsDict(mapping_result) ==
  ~mapping_result.has_substandards \/ mapping_result.is_dict

\* Lines 215-233: from the oracle's payload to the row, or to the early
\* return on a wrong shape, or to the exception the outer handler catches.
AssembleRow(learning_objective, subs, kps, mapping_result) ==
  LET substandards_mapping == SubstandardsMapping(mapping_result)
      stats == analyze_output_dict(substandards_mapping)
  IN IF ~IsDict(mapping_result) THEN [next |-> "bad_shape", row |-> NoRow]
     ELSE IF stats.raised THEN [next |-> "error", row |-> NoRow]
     ELSE [next |-> "append",
           row |-> [lo |-> learning_objective,
                    subs |-> JsonDumps(subs),
                    kps |-> JsonDumps(kps),
                    thinking |-> mapping_result.scratchpad,
                    mapping |-> JsonDumps(substandards_mapping),
                    nkp |-> Len(kps),
                    total |-> stats.total,
                    unique |-> IF stats.is_unique THEN "Yes" ELSE "No"]]

\* No outer handler: the exception leaves process_objective.
OnException_Propagates == "raised"

\* Lines 245-246: `except Exception` ends the task normally.
OnException == "error"

\* process_objective returns (or, never in this code, raises): the locals go.
Finish(j, how) ==
  /\ task' = [task EXCEPT ![j] = "done"]
  /\ outcome' = [outcome EXCEPT ![j] = how]
  /\ row_data' = [row_data EXCEPT ![j] = NoRow]

Running == {j \in Tasks : task[j] \notin {"none", "queued", "done"}}

\* The lock is taken on entry, around the whole of process_objective.
Start_Locked(j) ==
  /\ task[j] = "queued"
  /\ \A k \in Tasks : k < j => task[k] # "queued"
  /\ Cardinality({k \in Tasks : task[k] \notin {"none", "queued", "done"}}) < Processes
  /\ lock = 0
  /\ lock' = j
  /\ task' = [task EXCEPT ![j] = "calling"]
  /\ attempt' = [attempt EXCEPT ![j] = 0]
  /\ UNCHANGED <<inputVars, orchVars, listVars, fileVars, async_results,
                 calls, sleeps, raises, reply, row_data, outcome, log, mirrorVars>>

\* A free pool process takes the oldest queued task and enters
\* process_objective and get_mapping (lines 204-164).
Start(j) ==
  /\ task[j] = "queued"
  /\ \A k \in Tasks : k < j => task[k] # "queued"
  /\ Cardinality(Running) < Processes
  /\ task' = [task EXCEPT ![j] = "calling"]
  /\ attempt' = [attempt EXCEPT ![j] = 0]
  /\ UNCHANGED <<inputVars, orchVars, listVars, fileVars, lock, async_results,
                 calls, sleeps, raises, reply, row_data, outcome, log, mirrorVars>>

\* get_mapping returns: its counters go with it.
LeaveGetMapping(j) ==
  /\ attempt' = [attempt EXCEPT ![j] = 0]
  /\ calls' = [calls EXCEPT ![j] = 0]
  /\ sleeps' = [sleeps EXCEPT ![j] = 0]
  /\ raises' = [raises EXCEPT ![j] = 0]

\* get_mapping goes on: retry_count and the counters after this step.
StayInGetMapping(j, retry_count, count) ==
  /\ attempt' = [attempt EXCEPT ![j] = retry_count]
  /\ calls' = [calls EXCEPT ![j] = count.calls]
  /\ sleeps' = [sleeps EXCEPT ![j] = count.sleeps]
  /\ raises' = [raises EXCEPT ![j] = count.raises]

\* get_mapping returns an empty payload instead of None, and processing goes on.
NoMapping_EmptyPayload(j, how, entries) ==
  /\ task' = [task EXCEPT ![j] = "want_lock"]
  /\ row_data' = [row_data EXCEPT ![j] =
                    AssembleRow(learning_objectives[j], substandards[j], key_phrases[j],
                                ToolInput(FALSE, FALSE, <<>>)).row]
  /\ LeaveGetMapping(j)
  /\ log' = log \cup entries
  /\ UNCHANGED outcome

\* get_mapping returned None: lines 208-210.
NoMapping(j, how, entries) ==
  /\ Finish(j, how)
  /\ LeaveGetMapping(j)
  /\ log' = log \cup entries
           \cup {Entry("ERROR", "No valid mapping result for ID", learning_objectives[j], 0)}

\* Lines 164-186, end of the loop body after an exception: next iteration, or
\* lines 188-189 when the range is used up.
NextAttempt(j, entries, count) ==
  IF InRange(attempt[j] + 1)
    THEN /\ task' = [task EXCEPT ![j] = "calling"]
         /\ StayInGetMapping(j, attempt[j] + 1, count)
         /\ log' = log \cup entries
         /\ UNCHANGED <<row_data, outcome>>
    ELSE NoMapping(j, "oracle_exhausted",
                   entries \cup {Entry("ERROR", "Failed to process objective after attempts", <<>>, max_retries)})

\* A response without a tool_use block is handled like an exception of the
\* call: the loop goes on with the next attempt.
NoToolUse_Retried(j, count) ==
  NextAttempt(j, {Entry("ERROR", "No tool use response found", <<>>, 0)}, count)

\* Lines 174-179: the response holds no tool_use block: log, return None.
NoToolUse(j, count) ==
  NoMapping(j, "no_tool_use", {Entry("ERROR", "No tool use response found", <<>>, 0)})

\* What get_mapping and process_objective do with the result r of one call of
\* messages.create, up to the next blocking point.
OracleStep(j, r) ==
  LET count == [calls |-> calls[j] + 1,
                raises |-> raises[j] + (IF r.kind = "raise" THEN 1 ELSE 0),
                sleeps |-> sleeps[j]]
  IN
  CASE r.kind = "raise" ->
         LET failed == {Entry("ERROR", "Attempt failed", <<>>, attempt[j] + 1)} IN
         IF SleepsAfter(attempt[j])
           THEN /\ task' = [task EXCEPT ![j] = "sleeping"]
                /\ StayInGetMapping(j, attempt[j], [count EXCEPT !.sleeps = @ + 1])
                /\ log' = log \cup failed
                /\ UNCHANGED <<row_data, outcome>>
           ELSE NextAttempt(j, failed, count)
    [] r.kind = "text" -> NoToolUse(j, count)
    [] r.kind = "tool_use" ->
         LET a == AssembleRow(learning_objectives[j], substandards[j],
                              key_phrases[j], r.input) IN
         CASE a.next = "bad_shape" ->
                /\ Finish(j, "bad_shape")
                /\ LeaveGetMapping(j)
                /\ log' = log \cup {Entry("ERROR", "Unexpected format for 'substandards'", <<>>, 0)}
           [] a.next = "error" ->
                /\ Finish(j, OnException)
                /\ LeaveGetMapping(j)
                /\ log' = log \cup {Entry("ERROR", "Error processing mapping for ID", learning_objectives[j], 0)}
           [] a.next = "append" ->
                /\ task' = [task EXCEPT ![j] = "want_lock"]
                /\ row_data' = [row_data EXCEPT ![j] = a.row]
                /\ LeaveGetMapping(j)
                /\ UNCHANGED <<outcome, log>>

\* One call of messages.create (line 166), answered with one of `replies`,
\* and what follows from it.
AnswerFrom(j, replies) ==
  /\ task[j] = "calling"
  /\ \E r \in replies :
       /\ reply' = [reply EXCEPT ![j] = r]
       /\ OracleStep(j, r)
  /\ UNCHANGED <<inputVars, orchVars, listVars, fileVars, lock, async_results, mirrorVars>>

OracleCall(j) == AnswerFrom(j, OracleReplies)

\* The call answered at once by the wider oracle with a tool_use block.
WideOracleCall(j) == AnswerFrom(j, WideReplies)

\* time.sleep(2) returns (line 185), `continue` (line 186).
Wake(j) ==
  /\ task[j] = "sleeping"
  /\ NextAttempt(j, {}, [calls |-> calls[j], raises |-> raises[j], sleeps |-> sleeps[j]])
  /\ UNCHANGED <<inputVars, orchVars, listVars, fileVars, lock, async_results, reply, mirrorVars>>

\* ---------------------------------------------------------------------------
\* The append under the lock (lines 235-243)
\* ---------------------------------------------------------------------------

\* A lock that never blocks.
CanAcquire_NoBlock(l) == TRUE

\* lock.acquire() of `with lock:` returns when the lock is free.
CanAcquire(l) == l = 0

Acquire(j) ==
  /\ task[j] = "want_lock"
  /\ CanAcquire(lock)
  /\ lock' = j
  /\ task' = [task EXCEPT ![j] = "cs_open"]
  /\ UNCHANGED <<inputVars, orchVars, listVars, fileVars, async_results, attempt, calls,
                 sleeps, raises, reply, row_data, outcome, log, mirrorVars>>

\* The call to the manager process fails: an exception inside the outer try.
AcquireFails(j) ==
  /\ task[j] = "want_lock"
  /\ Finish(j, OnException)
  /\ log' = log \cup {Entry("ERROR", "Error processing mapping for ID", learning_objectives[j], 0)}
  /\ UNCHANGED <<inputVars, orchVars, listVars, fileVars, lock, async_results, attempt,
                 calls, sleeps, raises, reply, mirrorVars>>

WriteError(j) ==
  {Entry("ERROR", "Error writing to file for ID", learning_objectives[j], 0),
   Entry("ERROR", "Attempted to write to", <<>>, 0)}

\* Line 237: open(output_path, 'a'); on failure lines 241-243.
OpenAppend(j) ==
  /\ task[j] = "cs_open"
  /\ \/ /\ task' = [task EXCEPT ![j] = "cs_write"]
        /\ UNCHANGED <<outcome, log>>
     \/ /\ task' = [task EXCEPT ![j] = "cs_exit"]
        /\ outcome' = [outcome EXCEPT ![j] = "write_error"]
        /\ log' = log \cup WriteError(j)
  /\ UNCHANGED <<inputVars, orchVars, listVars, fileVars, lock, async_results, attempt,
                 calls, sleeps, raises, reply, row_data, mirrorVars>>

\* Line 239 and the close of the file: the row reaches the end of the file
\* (mode 'a') in two writes; the second one may fail and leave a torn row, and
\* the close that follows it may raise with the whole row in the file.
WriteFirst(j) ==
  /\ task[j] = "cs_write"
  /\ output_file' = Append(output_file, RowChunk(row_data[j], 1))
  /\ task' = [task EXCEPT ![j] = "cs_write2"]
  /\ UNCHANGED <<inputVars, orchVars, listVars, output_exists, lock, async_results,
                 attempt, calls, sleeps, raises, reply, row_data, outcome, log, mirrorVars>>

WriteSecond(j) ==
  /\ task[j] = "cs_write2"
  /\ task' = [task EXCEPT ![j] = "cs_exit"]
  /\ \/ /\ output_file' = Append(output_file, RowChunk(row_data[j], 2))
        /\ outcome' = [outcome EXCEPT ![j] = "written"]
        /\ UNCHANGED log
     \/ /\ outcome' = [outcome EXCEPT ![j] = "write_error"]
        /\ log' = log \cup WriteError(j)
        /\ UNCHANGED output_file
     \/ /\ output_file' = Append(output_file, RowChunk(row_data[j], 2))
        /\ outcome' = [outcome EXCEPT ![j] = "write_error"]
        /\ log' = log \cup WriteError(j)
  /\ UNCHANGED <<inputVars, orchVars, listVars, output_exists, lock, async_results,
                 attempt, calls, sleeps, raises, reply, row_data, mirrorVars>>

\* acquire() and release() without `with`: the release is skipped when the
\* append did not go through.
Release_UnlessFailed(j) ==
  /\ task[j] = "cs_exit"
  /\ lock' = IF outcome[j] = "write_error" THEN lock ELSE 0
  /\ task' = [task EXCEPT ![j] = "done"]
  /\ row_data' = [row_data EXCEPT ![j] = NoRow]
  /\ UNCHANGED <<inputVars, orchVars, listVars, fileVars, async_results, attempt, calls,
                 sleeps, raises, reply, outcome, log, mirrorVars>>

\* The `with lock:` block is left: release, and process_objective returns.
Release(j) ==
  /\ task[j] = "cs_exit"
  /\ lock' = 0
  /\ Finish(j, outcome[j])
  /\ UNCHANGED <<inputVars, orchVars, listVars, fileVars, async_results, attempt, calls,
                 sleeps, raises, reply, log, mirrorVars>>


\* ---------------------------------------------------------------------------
\* orchestrator(): join and mirror (lines 353-385)
\* ---------------------------------------------------------------------------

\* Lines 354-358: result.get() returns once the task has ended; an exception
\* of the task is re-raised here, caught and logged.
TaskEnded_OnceStarted(t) == t # "queued"

\* What result.get() and pool.join() wait for: the task function has returned.
TaskEnded(t) == t = "done"

\* A job that ended without its row is submitted again.
Wait_Resubmit ==
  /\ pc = "wait"
  /\ idx <= Len(async_results)
  /\ task[async_results[idx]] = "done"
  /\ IF outcome[async_results[idx]] # "written"
       THEN /\ task' = [task EXCEPT ![async_results[idx]] = "queued"]
            /\ outcome' = [outcome EXCEPT ![async_results[idx]] = "none"]
            /\ async_results' = Append(async_results, async_results[idx])
       ELSE UNCHANGED <<task, outcome, async_results>>
  /\ idx' = idx + 1
  /\ UNCHANGED <<inputVars, pc, listVars, fileVars, lock, attempt, calls, sleeps, raises,
                 reply, row_data, log, mirrorVars>>

Wait ==
  /\ pc = "wait"
  /\ idx <= Len(async_results)
  /\ TaskEnded(task[async_results[idx]])
  /\ log' = IF outcome[async_results[idx]] = "raised"
              THEN log \cup {Entry("ERROR", "An error occurred during multiprocessing", <<>>, 0)}
              ELSE log
  /\ idx' = idx + 1
  /\ UNCHANGED <<inputVars, pc, listVars, fileVars, lock, async_results, taskVars, mirrorVars>>

\* Lines 360-361: pool.close(), pool.join(): the pool processes leave once no
\* task is queued or running.  Line 364 holds whenever this point is reached.
CloseJoin ==
  /\ pc = "wait"
  /\ idx > Len(async_results)
  /\ \A j \in Tasks : task[j] = "none" \/ TaskEnded(task[j])
  /\ pc' = "mirror"
  /\ UNCHANGED <<inputVars, idx, listVars, fileVars, lock, async_results, taskVars, log, mirrorVars>>

\* The lines csv.DictReader sees: the header chunk and every part-2 chunk end
\* a line; what is left at the end of the file is a last line.
RECURSIVE SplitLines(_, _, _)
SplitLines(chunks, i, cur) ==
  IF i > Len(chunks) THEN (IF cur = <<>> THEN <<>> ELSE <<cur>>)
  ELSE IF chunks[i].part = 1 THEN SplitLines(chunks, i + 1, Append(cur, chunks[i]))
  ELSE <<Append(cur, chunks[i])>> \o SplitLines(chunks, i + 1, <<>>)

\* Line 309: the field names, in the order of the header line.
headers ==
  <<"Learning Objective", "Substandards", "Key Phrases", "Thinking",
    "Substandards to Key Phrases Mapping", "Number of Key Phrases",
    "Total Key Phrases Mapped", "All Key Phrases Mapped Unique?">>

\* csv writes str(n) for a number n; read back, it is text.
Str(n) == [str |-> n]

\* The fields a chunk of a data row carries: writer.writerow (line 239) puts
\* the values in the order of the field names; the first chunk holds the first
\* four fields, the second chunk the last four and the end of the line.
Fields(chunk) ==
  IF chunk.part = 1
    THEN <<chunk.data.lo, chunk.data.subs, chunk.data.kps, chunk.data.thinking>>
    ELSE <<chunk.data.mapping, Str(chunk.data.nkp), Str(chunk.data.total), chunk.data.unique>>

RECURSIVE LineFields(_, _)
LineFields(line, i) ==
  IF i > Len(line) THEN <<>> ELSE Fields(line[i]) \o LineFields(line, i + 1)

\* The value csv.DictReader gives a field name the line has no field for.
None == [none |-> TRUE]

\* One row of csv.DictReader: the fields of the line under the field names,
\* None for a missing field; fields beyond the last name are not under a name.
DictRow(line) ==
  LET fields == LineFields(line, 1) IN
  [h \in {headers[k] : k \in 1..Len(headers)} |->
     LET k == CHOOSE n \in 1..Len(headers) : headers[n] = h IN
     IF k <= Len(fields) THEN fields[k] ELSE None]

\* The first data row is dropped with the header line.
ReadRows_SkipFirst(chunks) ==
  LET lines == SplitLines(chunks, 1, <<>>) IN
  [n \in 1..(Len(lines) - 2) |-> DictRow(lines[n + 2])]

\* Lines 367-369: list(csv.DictReader(csvfile)): the first line gives the
\* field names, every other line is a row.
ReadRows(chunks) ==
  LET lines == SplitLines(chunks, 1, <<>>) IN
  [n \in 1..(Len(lines) - 1) |-> DictRow(lines[n + 1])]

\* Lines 373-382: the list handed to append_row.
AppendRowArgs(row) ==
  <<row["Learning Objective"],
    row["Substandards"],
    row["Key Phrases"],
    row["Thinking"],
    row["Substandards to Key Phrases Mapping"],
    row["Number of Key Phrases"],
    row["Total Key Phrases Mapped"],
    row["All Key Phrases Mapped Unique?"]>>

MirrorFailed == Entry("ERROR", "Failed to write to Google Sheet", <<>>, 0)

MirrorRead ==
  /\ pc = "mirror"
  /\ \/ /\ rows' = ReadRows(output_file)
        /\ pc' = "append_rows"
        /\ idx' = 1
        /\ UNCHANGED log
     \/ /\ log' = log \cup {MirrorFailed}
        /\ pc' = "done"
        /\ UNCHANGED <<rows, idx>>
  /\ UNCHANGED <<inputVars, listVars, fileVars, lock, async_results, taskVars, output_sheet>>

\* Lines 372-382: one output_sheet.append_row; an exception ends the loop.
MirrorAppend ==
  /\ pc = "append_rows"
  /\ idx <= Len(rows)
  /\ \/ /\ output_sheet' = Append(output_sheet, AppendRowArgs(rows[idx]))
        /\ idx' = idx + 1
        /\ UNCHANGED <<pc, log>>
     \/ /\ log' = log \cup {MirrorFailed}
        /\ pc' = "done"
        /\ UNCHANGED <<output_sheet, idx>>
  /\ UNCHANGED <<inputVars, listVars, fileVars, lock, async_results, taskVars, rows>>

MirrorDone ==
  /\ pc = "append_rows"
  /\ idx > Len(rows)
  /\ pc' = "done"
  /\ UNCHANGED <<inputVars, idx, listVars, fileVars, lock, async_results, taskVars, log, mirrorVars>>

\* ---------------------------------------------------------------------------
\* Specification
\* ---------------------------------------------------------------------------
Next ==
  \/ SetupSheets
  \/ LoadRecord
  \/ CheckEmpty
  \/ SetupOutputFile
  \/ Submit
  \/ SubmitDone
  \/ Wait
  \/ CloseJoin
  \/ MirrorRead
  \/ MirrorAppend
  \/ MirrorDone
  \/ \E j \in Tasks : Start(j)
  \/ \E j \in Tasks : OracleCall(j)
  \/ \E j \in Tasks : Wake(j)
  \/ \E j \in Tasks : Acquire(j)
  \/ \E j \in Tasks : AcquireFails(j)
  \/ \E j \in Tasks : OpenAppend(j)
  \/ \E j \in Tasks : WriteFirst(j)
  \/ \E j \in Tasks : WriteSecond(j)
  \/ \E j \in Tasks : Release(j)

Spec == Init /\ [][Next]_vars

\* The steps of the orchestrator process.
OrchestratorStep ==
  \/ SetupSheets
  \/ LoadRecord
  \/ CheckEmpty
  \/ SetupOutputFile
  \/ Submit
  \/ SubmitDone
  \/ Wait
  \/ CloseJoin
  \/ MirrorRead
  \/ MirrorAppend
  \/ MirrorDone

\* The steps of the pool process that runs task j, the failure of the lock
\* acquisition left aside (no step is ever bound to fail).
WorkerStep(j) ==
  \/ Start(j)
  \/ OracleCall(j)
  \/ Wake(j)
  \/ Acquire(j)
  \/ OpenAppend(j)
  \/ WriteFirst(j)
  \/ WriteSecond(j)
  \/ Release(j)

\* The run under fair scheduling: the orchestrator process goes on while it
\* can, and so does every pool process: a free one takes a queued task, every
\* call of the oracle returns or raises, every sleep ends, a worker waiting
\* for a lock that stays free gets it, a worker inside the critical section
\* goes on.
Fairness ==
  /\ WF_vars(OrchestratorStep)
  /\ \A j \in Tasks : WF_vars(WorkerStep(j))

\* The fair runs start without an output file of an earlier run.
FairInit == Init /\ ~output_exists

FairSpec == FairInit /\ [][Next]_vars /\ Fairness

\* The run over a sheet of at most one record, whose job the wider oracle
\* answers at its first call: process_objective on every mapping of WideInputs.
StatsInit ==
  /\ Init
  /\ Len(records) <= 1
  /\ \A i \in 1..Len(records) : records[i] \in {RecordOf(i, "ok"), RecordOf(i, "empty_lo")}

StatsNext ==
  \/ SetupSheets
  \/ LoadRecord
  \/ CheckEmpty
  \/ SetupOutputFile
  \/ Submit
  \/ SubmitDone
  \/ Wait
  \/ CloseJoin
  \/ MirrorRead
  \/ MirrorAppend
  \/ MirrorDone
  \/ \E j \in Tasks : Start(j)
  \/ \E j \in Tasks : WideOracleCall(j)
  \/ \E j \in Tasks : Acquire(j)
  \/ \E j \in Tasks : AcquireFails(j)
  \/ \E j \in Tasks : OpenAppend(j)
  \/ \E j \in Tasks : WriteFirst(j)
  \/ \E j \in Tasks : WriteSecond(j)
  \/ \E j \in Tasks : Release(j)

StatsSpec == StatsInit /\ [][StatsNext]_vars


\* ---------------------------------------------------------------------------
\* Properties
\* ---------------------------------------------------------------------------

\* Tasks inside the `with lock:` block of process_objective.
InCriticalSection == {j \in Tasks : task[j] \in {"cs_open", "cs_write", "cs_write2", "cs_exit"}}

\* C1: at most one worker is inside the append critical section, the worker
\* inside holds the lock, and every chunk of a data row reaches the file in a
\* step of the worker that holds the lock.
C1_MutualExclusion ==
  /\ [](/\ Cardinality(InCriticalSection) <= 1
        /\ \A j \in InCriticalSection : lock = j)
  /\ [][Len(output_file') > Len(output_file) /\ pc # "setup_file"
          => /\ lock \in InCriticalSection
             /\ output_file' = Append(output_file, RowChunk(row_data[lock], output_file'[Len(output_file')].part))
             /\ lock' = lock]_vars

\* One worker is writing its row while another one waits for the lock.
C1_Witness ==
  \E j, k \in Tasks : task[j] = "cs_write2" /\ task[k] = "want_lock" /\ lock = j

Finished == pc \in {"mirror", "append_rows", "done"}

\* The file did not exist when the run began.
StartedAbsent == Len(output_file) >= 2 => output_file[2].data # OldRow

Appended == {j \in Tasks : outcome[j] \in {"written", "write_error"}}

FileLines == SplitLines(output_file, 1, <<>>)

CompleteRow(line, row) == line = <<RowChunk(row, 1), RowChunk(row, 2)>>

\* C2: starting from an absent file, when the N workers that reached the
\* append all wrote without failure, the finished file is the header line
\* followed by N complete rows, exactly one for each of those workers.
C2_HeaderPlusNRows ==
  (Finished /\ StartedAbsent /\ \A j \in Tasks : outcome[j] # "write_error")
    => /\ Len(FileLines) = Cardinality(Appended) + 1
       /\ FileLines[1] = <<HeaderChunk>>
       /\ \A n \in 2..Len(FileLines) :
            \E j \in Appended : FileLines[n][1].data.lo = learning_objectives[j]
                                /\ CompleteRow(FileLines[n], FileLines[n][1].data)
       /\ \A j \in Appended :
            Cardinality({n \in 2..Len(FileLines) :
                           FileLines[n][1].data.lo = learning_objectives[j]}) = 1

\* Two workers appended to a file created by this run, and the run is over.
C2_Witness ==
  /\ Finished /\ StartedAbsent
  /\ Cardinality({j \in Tasks : outcome[j] = "written"}) >= 2
  /\ Len(FileLines) = 3


\* The tasks submitted to the pool.
Submitted == {async_results[n] : n \in 1..Len(async_results)}

\* The last call of the oracle for task j returned a tool_use block whose
\* "substandards" is a dict (or is absent, which .get replaces by {}).
DictShaped(input) == ~input.has_substandards \/ input.is_dict
ValidReply(j) == reply[j].kind = "tool_use" /\ DictShaped(reply[j].input)

\* The chunks of part p that carry the objective of task j.
ChunksOf(j, p) ==
  {n \in 1..Len(output_file) : /\ output_file[n].part = p
                               /\ output_file[n].data # OldRow
                               /\ output_file[n].data.lo = learning_objectives[j]}

\* C3: every data row appended during the run belongs to exactly one
\* submitted job, that job received a structured response whose mapping is a
\* dict, no job has more than one row, and a job whose oracle call failed or
\* whose response has the wrong shape has no row.
C3_RowsBelongToValidJobs ==
  /\ \A n \in 1..Len(output_file) :
       (output_file[n].part >= 1 /\ output_file[n].data # OldRow)
         => /\ Cardinality({j \in Submitted : learning_objectives[j] = output_file[n].data.lo}) = 1
            /\ \A j \in Submitted :
                 learning_objectives[j] = output_file[n].data.lo => ValidReply(j)
  /\ \A j \in Submitted :
       /\ Cardinality(ChunksOf(j, 1)) <= 1
       /\ Cardinality(ChunksOf(j, 2)) <= 1
       /\ (task[j] = "done" /\ outcome[j] \in {"oracle_exhausted", "no_tool_use", "bad_shape"})
            => ChunksOf(j, 1) \cup ChunksOf(j, 2) = {}
       /\ ~ValidReply(j) => ChunksOf(j, 1) \cup ChunksOf(j, 2) = {}

\* One job has its row in the file, another one was dropped for the shape of
\* its mapping, a third way of ending (oracle exhausted) is covered by C6.
C3_Witness ==
  \E j, k \in Submitted :
    /\ outcome[j] = "written" /\ ChunksOf(j, 2) # {}
    /\ task[k] = "done" /\ outcome[k] = "bad_shape" /\ reply[k].input = StringInput

\* The complete rows this run added to the file.
RowsAdded ==
  {n \in 1..Len(FileLines) : /\ FileLines[n][1].part = 1
                             /\ FileLines[n][1].data # OldRow
                             /\ CompleteRow(FileLines[n], FileLines[n][1].data)}

HasRow(j) == \E n \in RowsAdded : FileLines[n][1].data.lo = learning_objectives[j]

\* An ERROR entry that tells of the end of task j: one that carries its
\* objective, or the entry of the shape check (which carries none).
ErrorLogged(j) ==
  \E e \in log : /\ e.level = "ERROR"
                 /\ \/ e.id = learning_objectives[j]
                    \/ outcome[j] = "bad_shape" /\ e.msg = "Unexpected format for 'substandards'"

NoAppendFailed == \A j \in Tasks : outcome[j] # "write_error"

\* C4 as stated: at the end of a run in which no append fails, the rows added
\* are those of the jobs with a structured, dict-shaped response; every other
\* job has no row and an error log entry.
C4_AsStated ==
  (Finished /\ NoAppendFailed)
    => /\ Cardinality(RowsAdded) = Cardinality({j \in Submitted : ValidReply(j)})
       /\ \A j \in Submitted : IF ValidReply(j) THEN HasRow(j)
                               ELSE ~HasRow(j) /\ ErrorLogged(j)

\* C4 (amended): at the end of a run in which no append fails, the rows added
\* are those of the jobs with a structured, dict-shaped response during whose
\* processing no exception was caught by the outer handler (statistics over an
\* unhashable value, lock acquisition); every other job has no row and an
\* error log entry.
GetsRow(j) == ValidReply(j) /\ outcome[j] # "error"

C4_RowsOfValidJobs ==
  (Finished /\ NoAppendFailed)
    => /\ Cardinality(RowsAdded) = Cardinality({j \in Submitted : GetsRow(j)})
       /\ \A j \in Submitted : IF GetsRow(j) THEN HasRow(j)
                               ELSE ~HasRow(j) /\ ErrorLogged(j)

\* The run is over: one job wrote its row, the other was dropped after the
\* oracle failed on every attempt.
C4_Witness ==
  /\ pc = "done" /\ NoAppendFailed
  /\ \E j, k \in Submitted :
       /\ outcome[j] = "written" /\ HasRow(j)
       /\ outcome[k] = "oracle_exhausted" /\ ~HasRow(k) /\ ErrorLogged(k)

\* C5: once the mirror step has begun, every submitted job has ended, no pool
\* process is running a task, the lock is free, and the file never changes
\* again.
C5_MirrorAfterJoin ==
  /\ [](Finished => /\ \A j \in Submitted : task[j] = "done"
                    /\ Running = {}
                    /\ \A j \in Tasks : task[j] # "queued"
                    /\ lock = 0)
  /\ [][Finished => Finished' /\ output_file' = output_file /\ task' = task]_vars

\* Rows are being mirrored after two jobs ended, one of them with a row.
C5_Witness ==
  /\ pc = "append_rows" /\ Len(output_sheet) >= 1
  /\ Cardinality(Submitted) >= 2
  /\ \E j \in Submitted : outcome[j] = "written"


\* The step of task j is a call of the oracle / the return of get_mapping.
CallStep(j) == task[j] = "calling" /\ <<task'[j], attempt'[j]>> # <<task[j], attempt[j]>>
ReturnStep(j) == task[j] \in {"calling", "sleeping"} /\ task'[j] \in {"done", "want_lock"}

\* The calls get_mapping has made, and those that raised, once the step is taken.
CallsMade(j) == calls[j] + (IF CallStep(j) THEN 1 ELSE 0)
RaisesMade(j) == raises[j] + (IF CallStep(j) /\ reply'[j].kind = "raise" THEN 1 ELSE 0)

\* C6: when get_mapping returns and every call it made raised, it made exactly
\* max_retries calls (with max_retries - 1 sleeps between them) and returns
\* None: the job ends as exhausted, without a row.  When its first call
\* returns a tool_use block, get_mapping returns in that very step: one call,
\* no retry, no sleep.
C6_RetryCount ==
  [][\A j \in Tasks :
       /\ (ReturnStep(j) /\ RaisesMade(j) = CallsMade(j))
            => /\ CallsMade(j) = max_retries
               /\ sleeps[j] = max_retries - 1
               /\ task'[j] = "done" /\ outcome'[j] = "oracle_exhausted"
               /\ row_data'[j] = NoRow
       /\ (CallStep(j) /\ reply'[j].kind = "tool_use" /\ raises[j] = 0)
            => /\ ReturnStep(j)
               /\ CallsMade(j) = 1
               /\ sleeps[j] = 0]_vars

\* One get_mapping gave up after its call number max_retries failed, another
\* one is at its first call, to be answered or not.
C6_Witness ==
  \E j, k \in Tasks :
    /\ task[j] = "done" /\ outcome[j] = "oracle_exhausted" /\ reply[j].kind = "raise"
    /\ Entry("ERROR", "Attempt failed", <<>>, max_retries) \in log
    /\ task[k] = "want_lock" /\ reply[k].kind = "tool_use"
    /\ \A n \in 1..max_retries : Entry("ERROR", "Attempt failed", <<>>, n) \in log

FailedOutcomes == {"oracle_exhausted", "no_tool_use", "bad_shape", "error", "write_error"}

\* C7: no task ends by raising out of process_objective (result.get() never
\* re-raises); a task that has ended does not hold the lock and the lock is
\* only ever held by a task inside the critical section; the step that ends
\* one task leaves every other task and the orchestrator where they are; and
\* once all submitted tasks have ended, failures or not, the orchestrator can
\* pass the join.
C7_FailureIsContained ==
  /\ [](/\ \A j \in Tasks : outcome[j] # "raised" /\ (task[j] = "done" => lock # j)
        /\ \A e \in log : e.msg # "An error occurred during multiprocessing"
        /\ lock # 0 => lock \in InCriticalSection
        /\ (pc = "wait" /\ \A j \in Submitted : task[j] = "done")
             => ENABLED (Wait \/ CloseJoin))
  /\ [][\A j \in Tasks :
          (task[j] # "done" /\ task'[j] = "done")
            => /\ \A k \in Tasks \ {j} : task'[k] = task[k] /\ outcome'[k] = outcome[k]
               /\ pc' = pc /\ idx' = idx /\ async_results' = async_results
               /\ lock' \in {lock, 0}]_vars

\* The run reached its end with one job dropped by the outer handler or by a
\* failed append and another job written.
C7_Witness ==
  /\ pc = "done"
  /\ \E j, k \in Submitted :
       /\ outcome[j] \in {"error", "write_error"}
       /\ outcome[k] = "written" /\ HasRow(k)

\* The positions of the loaded lists the submission loop has passed.
Passed == IF pc = "submit" THEN 1..(idx - 1)
          ELSE IF pc \in {"wait", "mirror", "append_rows", "done"} THEN 1..ZipLen
          ELSE {}

\* C8: a loaded record with an empty objective is never submitted: its task
\* never exists, the oracle is never called for it and no chunk of the file
\* carries an empty objective; a record with an objective that the loop has
\* passed is submitted, whatever came before it.
C8_EmptyObjectiveSkipped ==
  /\ \A j \in 1..Len(learning_objectives) :
       learning_objectives[j] = <<>>
         => task[j] = "none" /\ reply[j] = NoReply /\ j \notin Submitted
  /\ \A n \in 1..Len(output_file) : output_file[n].part >= 1 => output_file[n].data.lo # <<>>
  /\ \A j \in Passed : learning_objectives[j] # <<>> => j \in Submitted

\* The first record has an empty objective, the second one was submitted and
\* its oracle was called.
C8_Witness ==
  /\ Len(learning_objectives) >= 2
  /\ learning_objectives[1] = <<>> /\ 1 \in Passed
  /\ 2 \in Submitted /\ reply[2] # NoReply

\* No job is left: every loaded record has an empty objective.
ZeroJobs == \A j \in 1..Len(learning_objectives) : learning_objectives[j] = <<>>

LoadingOver == pc \notin {"start", "load", "raised"}

\* C9: when zero jobs remain after the skips, the orchestrator creates no
\* output file: the file is absent, or is the one an earlier run left.
C9_NoFileWhenNoJobs ==
  (LoadingOver /\ ZeroJobs) => output_file \in {<<>>, PriorFile}

\* The records whose fields parse.
Parses(record) ==
  /\ {"Learning Objective", "Substandards", "Key Phrases"} \subseteq record.keys
  /\ record.subs.wf
  /\ record.kps.wf

\* The records the loading loop has passed.
Read == IF pc = "start" \/ pc = "raised" THEN {}
        ELSE IF pc = "load" THEN 1..(idx - 1)
        ELSE 1..Len(records)

GoodRead == {i \in Read : Parses(records[i])}

RowText(row) ==
  <<row.lo, row.subs, row.kps, row.thinking, row.mapping,
    Str(row.nkp), Str(row.total), row.unique>>

\* The n-th append_row call carried the n-th data line of the file: the
\* columns of a complete row, and of any line its fields in their order.
MirroredAt(n) ==
  LET line == FileLines[n + 1]
      fields == LineFields(line, 1)
  IN /\ Len(output_sheet[n]) = Len(headers)
     /\ CompleteRow(line, line[1].data) => output_sheet[n] = RowText(line[1].data)
     /\ \A k \in 1..Len(headers) :
          output_sheet[n][k] = IF k <= Len(fields) THEN fields[k] ELSE None

\* C11 as stated: after a run that reached the mirror step, the mirror received
\* one append_row call per data line of the file, in file order, each with the
\* eight column values of that line.
C11_AsStated ==
  (pc = "done" /\ google_sheet_info)
    => /\ Len(output_sheet) = Len(FileLines) - 1
       /\ \A n \in 1..Len(output_sheet) : MirroredAt(n)

\* C11 (amended): the same, for a run whose mirror step logged no failure; in
\* every run the calls made so far carry the first data lines of the file, in
\* file order, one call per line, and nothing is mirrored before the join.
C11_MirrorsEveryRow ==
  /\ (pc = "done" /\ google_sheet_info /\ MirrorFailed \notin log)
       => Len(output_sheet) = Len(FileLines) - 1
  /\ pc \in {"append_rows", "done"}
       => /\ Len(output_sheet) <= Len(FileLines) - 1
          /\ \A n \in 1..Len(output_sheet) : MirroredAt(n)
  /\ pc = "append_rows" => Len(output_sheet) = idx - 1
  /\ pc \notin {"append_rows", "done"} => output_sheet = <<>>

\* The mirror step ended without failure after two rows were mirrored, one of
\* them written by a job of this run.
C11_Witness ==
  /\ pc = "done" /\ MirrorFailed \notin log
  /\ Len(output_sheet) >= 2
  /\ \E j \in Submitted : outcome[j] = "written" /\ \E n \in 1..Len(output_sheet) :
       output_sheet[n] = RowText(FileLines[n + 1][1].data)
       /\ output_sheet[n][1] = learning_objectives[j]

\* The rows this run has assembled or appended: the row a job holds, and the
\* data of every chunk of the file that an earlier run did not leave.
RowsWritten ==
  {row_data[j] : j \in {k \in Tasks : row_data[k] # NoRow}}
    \cup {output_file[n].data : n \in {k \in 1..Len(output_file) :
                                        /\ output_file[k].part >= 1
                                        /\ output_file[k].data # OldRow}}

\* The job a row belongs to.
JobOf(row) == CHOOSE j \in Submitted : learning_objectives[j] = row.lo

\* The places of a mapping's lists: <<i, k>> is the k-th phrase of the list
\* mapped to the i-th substandard.
ListPlaces(m) ==
  UNION {{<<i, k>> : k \in 1..Len(m[i].items)} : i \in {v \in DOMAIN m : m[v].islist}}

\* C12: in every row assembled or written, the mapping column is the
\* serialized "substandards" of the job's tool_use payload, and 'Total Key
\* Phrases Mapped' is the number of phrases in the lists of that mapping: the
\* sum of the lengths of its lists, a value that is no list adding nothing.
C12_TotalIsSumOfLists ==
  \A row \in RowsWritten :
    /\ \E j \in Submitted : learning_objectives[j] = row.lo
    /\ reply[JobOf(row)].kind = "tool_use"
    /\ row.mapping = JsonDumps(SubstandardsMapping(reply[JobOf(row)].input))
    /\ row.total = Cardinality(ListPlaces(JsonLoads(row.mapping).val))

\* The row of a job is complete in the file; its mapping holds a list of two
\* phrases and a value that is no list, and its total is two.
C12_Witness ==
  \E n \in 1..Len(output_file) :
    LET m == JsonLoads(output_file[n].data.mapping).val IN
    /\ output_file[n].part = 2 /\ output_file[n].data # OldRow
    /\ output_file[n].data.total = 2
    /\ \E i, k \in DOMAIN m : ~m[i].islist /\ m[k].islist /\ Len(m[k].items) = 2

\* C13 as stated: in every row assembled or written, 'Total Key Phrases
\* Mapped' is at most 'Number of Key Phrases'.
C13_AsStated ==
  \A row \in RowsWritten : row.total <= row.nkp

\* The number of places of the mapping's lists that hold phrase p, and the
\* number of places of the job's key-phrase list that do.
TimesMapped(m, p) == Cardinality({x \in ListPlaces(m) : m[x[1]].items[x[2]] = p})
TimesListed(kps, p) == Cardinality({k \in 1..Len(kps) : kps[k] = p})

\* The lists of the mapping hold no phrase more often than the job's
\* key-phrase list does (so no phrase that is not in it).
MapsEachPhraseOnce(m, kps) ==
  \A x \in ListPlaces(m) :
    TimesMapped(m, m[x[1]].items[x[2]]) <= TimesListed(kps, m[x[1]].items[x[2]])

\* C13 (amended): 'Number of Key Phrases' is the length of the job's
\* key-phrase list, and the total is at most that number in every row whose
\* mapping holds no phrase more often than the job's key-phrase list does.
C13_TotalAtMostNumber ==
  \A row \in RowsWritten :
    /\ row.nkp = Len(key_phrases[JobOf(row)])
    /\ row.kps = JsonDumps(key_phrases[JobOf(row)])
    /\ MapsEachPhraseOnce(JsonLoads(row.mapping).val, key_phrases[JobOf(row)])
         => row.total <= row.nkp

\* The row of a job is complete in the file; its mapping gives each of the
\* job's two key phrases to one substandard, beside a value that is no list.
C13_Witness ==
  \E n \in 1..Len(output_file) :
    LET row == output_file[n].data
        m == JsonLoads(row.mapping).val
    IN /\ output_file[n].part = 2 /\ row # OldRow
       /\ Len(m) = 2 /\ m[1].islist /\ Len(m[1].items) = 2 /\ ~m[2].islist
       /\ MapsEachPhraseOnce(m, key_phrases[JobOf(row)])
       /\ row.total = row.nkp

\* Two substandards of the mapping have identical phrase lists, compared as
\* ordered sequences.
TwoIdenticalLists(m) ==
  \E i, k \in DOMAIN m : i < k /\ m[i].islist /\ m[k].islist /\ m[i].items = m[k].items

\* Two substandards of the mapping have equal values, lists or not.
TwoEqualValues(m) == \E i, k \in DOMAIN m : i < k /\ m[i] = m[k]

\* A value of the mapping cannot be hashed and no two values before it are equal.
UnhashableFirst(m) ==
  \E i \in DOMAIN m :
    /\ ~m[i].hashable
    /\ \A a, b \in 1..(i - 1) : a < b => m[a] # m[b]
    /\ \A a \in 1..(i - 1) : m[a].hashable

\* The jobs whose processing is past the statistics.
PastStatistics == {j \in Submitted : task[j] \in {"want_lock", "cs_open", "cs_write",
                                                 "cs_write2", "cs_exit", "done"}}

\* C14 as stated: every job whose tool_use payload has a dict-shaped mapping
\* gets a row, whose uniqueness column is "No" if two substandards have
\* identical phrase lists and "Yes" otherwise.
C14_AsStated ==
  \A j \in PastStatistics :
    ValidReply(j)
      => /\ outcome[j] # "error"
         /\ row_data[j] # NoRow
              => row_data[j].unique =
                   IF TwoIdenticalLists(SubstandardsMapping(reply[j].input)) THEN "No" ELSE "Yes"

\* C14 (amended): a job with a dict-shaped mapping gets its row assembled
\* unless a value of the mapping cannot be hashed before two equal values are
\* met, in which case the job ends in the outer handler; the uniqueness column
\* of the row is "No" if two substandards have equal values (identical phrase
\* lists compared as ordered sequences, or equal values that are no lists) and
\* "Yes" otherwise.
C14_UniqueColumn ==
  \A j \in PastStatistics :
    LET m == SubstandardsMapping(reply[j].input) IN
    ValidReply(j)
      => /\ UnhashableFirst(m) => task[j] = "done" /\ outcome[j] = "error"
         /\ ~UnhashableFirst(m) /\ task[j] # "done" => row_data[j] # NoRow
         /\ row_data[j] # NoRow
              => /\ row_data[j].mapping = JsonDumps(m)
                 /\ row_data[j].unique = IF TwoEqualValues(m) THEN "No" ELSE "Yes"
                 /\ TwoIdenticalLists(m) => row_data[j].unique = "No"

\* A row is assembled for a mapping whose two lists hold the same two phrases
\* in different orders: its uniqueness column is "Yes".
C14_Witness ==
  \E j \in Tasks :
    LET m == SubstandardsMapping(reply[j].input) IN
    /\ task[j] = "want_lock" /\ Len(m) = 2 /\ m[1].islist /\ m[2].islist
    /\ Len(m[1].items) = 2 /\ Len(m[2].items) = 2
    /\ m[1].items[1] = m[2].items[2] /\ m[1].items[2] = m[2].items[1]
    /\ m[1].items[1] # m[1].items[2]
    /\ row_data[j].unique = "Yes"

\* Workers inside get_mapping: in a call of the oracle, or in the sleep
\* between two attempts.
InOracle == {j \in Tasks : task[j] \in {"calling", "sleeping"}}

\* C15: a worker that is calling the oracle or sleeping between attempts does
\* not hold the lock; while a worker is there, a worker ready to append can
\* take the lock as soon as no worker is inside the critical section, and a
\* worker inside the critical section can take its next step of the append.
C15_NoLockAcrossOracle ==
  /\ \A j \in InOracle : lock # j
  /\ \A j \in InOracle : \A k \in Tasks :
       (task[k] = "want_lock" /\ InCriticalSection = {}) => ENABLED Acquire(k)
  /\ \A j \in InOracle : \A k \in InCriticalSection :
       ENABLED (OpenAppend(k) \/ WriteFirst(k) \/ WriteSecond(k) \/ Release(k))

\* One worker sleeps between two attempts while another one, holding the
\* lock, has written the first part of its row.
C15_Witness ==
  \E j, k \in Tasks :
    /\ task[j] = "sleeping" /\ attempt[j] >= 1
    /\ task[k] = "cs_write2" /\ lock = k
    /\ output_file[Len(output_file)] = RowChunk(row_data[k], 1)

\* The append of job j failed: open() or the write raised inside `with lock:`.
AppendFailed == {j \in Tasks : outcome[j] = "write_error"}

\* C16 as stated: after a failed append the worker releases the lock and its
\* job ends, nothing of the job's row is in the file, the oracle is not called
\* again for the job, and a worker waiting for the lock can take it.
C16_AsStated ==
  \A j \in AppendFailed :
    /\ task[j] \in {"cs_exit", "done"}
    /\ task[j] = "done" => lock # j
    /\ ChunksOf(j, 1) \cup ChunksOf(j, 2) = {}

\* C16 (amended): after a failed append the failure is logged with the job's
\* objective, the worker can leave the critical section, which frees the lock,
\* and its job has ended then, for good; the oracle is not called again for
\* the job; a worker waiting for the lock can take it once no worker is inside
\* the critical section.  Nothing is written for the job when open() failed,
\* and nothing is rolled back or added when the write or the close failed:
\* what reached the file before the failure (the first part of the row's
\* line, or all of it) stays.
C16_AppendFailureContained ==
  /\ [](\A j \in AppendFailed :
          /\ task[j] \in {"cs_exit", "done"}
          /\ task[j] = "cs_exit" => lock = j /\ ENABLED Release(j)
          /\ task[j] = "done" => lock # j
          /\ Entry("ERROR", "Error writing to file for ID", learning_objectives[j], 0) \in log
          /\ calls[j] = 0 /\ attempt[j] = 0
          /\ \A k \in Tasks :
               (task[k] = "want_lock" /\ InCriticalSection = {}) => ENABLED Acquire(k))
  /\ [][\A j \in Tasks :
          /\ (task[j] = "cs_open" /\ j \in AppendFailed')
               => ChunksOf(j, 1)' \cup ChunksOf(j, 2)' = {}
          /\ j \in AppendFailed
               => /\ j \in AppendFailed'
                  /\ reply'[j] = reply[j]
                  /\ task'[j] \in {task[j], "done"}
                  /\ task'[j] # task[j] => lock' = 0
                  /\ ChunksOf(j, 1)' = ChunksOf(j, 1)
                  /\ ChunksOf(j, 2)' = ChunksOf(j, 2)]_vars

\* The write of one job failed after the first part of its row had reached
\* the file; its worker has left, and another worker holds the lock now.
C16_Witness ==
  \E j, k \in Tasks :
    /\ task[j] = "done" /\ outcome[j] = "write_error" /\ ChunksOf(j, 1) # {}
    /\ task[k] = "cs_open" /\ lock = k

\* The ways process_objective ends.
Succeeded == {"written"}
DroppedByValidation == {"bad_shape", "error"}
DroppedByOracle == {"oracle_exhausted", "no_tool_use"}
DroppedByAppend == {"write_error"}

\* The state machine of a job: Pending is "queued", Calling Oracle is
\* "calling", Retrying is "sleeping"; then the append under the lock.
JobStep(from, to) ==
  \/ from = "none" /\ to = "queued"
  \/ from = "queued" /\ to = "calling"
  \/ from = "calling" /\ to \in {"sleeping", "want_lock", "done"}
  \/ from = "sleeping" /\ to = "calling"
  \/ from = "want_lock" /\ to \in {"cs_open", "done"}
  \/ from = "cs_open" /\ to \in {"cs_write", "cs_exit"}
  \/ from = "cs_write" /\ to = "cs_write2"
  \/ from = "cs_write2" /\ to = "cs_exit"
  \/ from = "cs_exit" /\ to = "done"

\* C17 as stated: every job that has ended is Succeeded(written),
\* Dropped(validation-failed) or Dropped(oracle-exhausted), counting an answer
\* without a structured block as a failure of the oracle and an exception
\* caught by the outer handler as a failed validation.
C17_AsStated ==
  \A j \in Tasks :
    task[j] = "done" => outcome[j] \in Succeeded \cup DroppedByValidation \cup DroppedByOracle

\* C17 (amended): a job moves along Pending -> (Calling Oracle <-> Retrying)
\* and, with a mapping of the right shape, on to the append under the lock; it
\* ends written, dropped by the validation or the outer handler, dropped by
\* the oracle, or dropped by a failed append; the state it ends in is
\* absorbing, how it ended never changes, no job returns to Pending once
\* dispatched, and no job is submitted twice.
C17_JobStateMachine ==
  /\ [](/\ \A j \in Tasks :
             /\ task[j] = "done"
                  => outcome[j] \in Succeeded \cup DroppedByValidation
                                      \cup DroppedByOracle \cup DroppedByAppend
             /\ task[j] = "cs_exit" => outcome[j] \in Succeeded \cup DroppedByAppend
             /\ task[j] \notin {"cs_exit", "done"} => outcome[j] = "none"
             /\ task[j] # "none" <=> j \in Submitted
        /\ \A a, b \in 1..Len(async_results) : a # b => async_results[a] # async_results[b])
  /\ [][\A j \in Tasks :
          /\ task'[j] # task[j] => JobStep(task[j], task'[j])
          /\ task[j] = "done" => task'[j] = "done" /\ outcome'[j] = outcome[j]
          /\ task[j] \notin {"none", "queued"} => task'[j] \notin {"none", "queued"}
          /\ (task[j] = "calling" /\ task'[j] = "done")
               => outcome'[j] \in DroppedByOracle \cup DroppedByValidation
          /\ (task[j] = "want_lock" /\ task'[j] = "done") => outcome'[j] = "error"
          /\ (task[j] = "cs_exit" /\ task'[j] = "done")
               => outcome'[j] \in Succeeded \cup DroppedByAppend
          /\ \A n \in 1..Len(async_results) :
               Len(async_results') >= n /\ async_results'[n] = async_results[n]]_vars

\* One job is back in a call of the oracle after a failed attempt and a
\* sleep, while another one has ended by a failed append and the
\* orchestrator is past its result.
C17_Witness ==
  \E j, k \in Tasks :
    /\ task[j] = "calling" /\ attempt[j] >= 1
    /\ task[k] = "done" /\ outcome[k] = "write_error"
    /\ pc = "wait" /\ idx >= 2 /\ async_results[1] = k

\* C18: a call of the oracle that returns a response is the last call for its
\* job: get_mapping returns in that very step, whatever the attempts left; a
\* response without a tool_use block ends the job as dropped, and so does a
\* block whose "substandards" is no dict; a job past get_mapping never calls
\* again; and get_mapping never makes more than max_retries calls.
C18_NoCallAfterResponse ==
  [][\A j \in Tasks :
       /\ (CallStep(j) /\ reply'[j].kind # "raise")
            => /\ ReturnStep(j)
               /\ calls'[j] = 0 /\ attempt'[j] = 0
       /\ (CallStep(j) /\ reply'[j].kind = "text")
            => task'[j] = "done" /\ outcome'[j] = "no_tool_use"
       /\ (CallStep(j) /\ reply'[j].kind = "tool_use" /\ ~DictShaped(reply'[j].input))
            => task'[j] = "done" /\ outcome'[j] = "bad_shape"
       /\ task[j] \notin {"none", "queued", "calling", "sleeping"}
            => /\ reply'[j] = reply[j]
               /\ task'[j] \notin {"queued", "calling", "sleeping"}
       /\ reply'[j] # reply[j] => CallStep(j)
       /\ CallStep(j) => calls[j] = attempt[j] /\ CallsMade(j) <= max_retries]_vars

\* One job was dropped for an answer without a tool_use block and another one
\* for the shape of its mapping, after one failed attempt only in all.
C18_Witness ==
  \E j, k \in Tasks :
    /\ task[j] = "done" /\ outcome[j] = "no_tool_use" /\ reply[j].kind = "text"
    /\ task[k] = "done" /\ outcome[k] = "bad_shape" /\ reply[k].input = StringInput
    /\ Entry("ERROR", "Attempt failed", <<>>, 1) \in log
    /\ Entry("ERROR", "Attempt failed", <<>>, 2) \notin log

\* C19: under fair scheduling, once the orchestrator submits jobs, every
\* submitted job ends and the orchestrator passes the join and reaches the
\* mirror step, with every job it submitted ended.
C19_EveryJobEnds ==
  (pc \in {"submit", "wait"} \/ \E j \in Tasks : task[j] \notin {"none", "done"})
    ~> (pc = "mirror" /\ \A j \in Tasks : task[j] \in {"none", "done"})

\* The orchestrator is at the mirror step after two jobs: one had waited for
\* the lock behind the other, which failed all its attempts before.
C19_Witness ==
  /\ pc = "mirror"
  /\ \E j, k \in Submitted :
       /\ outcome[j] = "written"
       /\ outcome[k] = "oracle_exhausted"
       /\ \A n \in 1..max_retries : Entry("ERROR", "Attempt failed", <<>>, n) \in log

\* An ERROR entry of the log carries the objective of job j.
IdentifiedInLog(j) ==
  \E e \in log : e.level = "ERROR" /\ e.id = learning_objectives[j]

\* C20: every job that has ended dropped (oracle exhausted, no structured
\* block, mapping of the wrong shape, failed append, exception caught by the
\* outer handler) has an ERROR log entry that carries its objective.
C20_DroppedJobsIdentified ==
  \A j \in Submitted :
    (task[j] = "done" /\ outcome[j] \in FailedOutcomes) => IdentifiedInLog(j)

====
